---------------------------- MODULE Spec2Model ----------------------------
(***************************************************************************)
(* Model of the name generator of src/name_generator_enhanced.py:          *)
(* split_name, build_weighted_pools, weighted_choice, generate_name and    *)
(* the driver main().  A string is a sequence of one-character strings.    *)
(***************************************************************************)
EXTENDS Integers, Sequences, FiniteSets, TLC

VARIABLES
    names,      \* the corpus: main's `names`, or the argument of the call
    count,      \* args.count
    min_len,    \* args.min_len
    max_len,    \* args.max_len
    debug,      \* args.debug
    seed,       \* args.seed (None when the option is absent)
    pc,         \* per session: the position in the program
    parts,      \* per session: the tuple split_name returned
    i,          \* per session: index of the next name in build_weighted_pools
    p_counter,  \* per session: Counter of prefixes
    m_counter,  \* per session: Counter of middles
    s_counter,  \* per session: Counter of suffixes
    attempts,   \* per session: candidates generate_name has rejected in this call
    name,       \* per session: generate_name's local `name`
    k,          \* per session: names printed so far (the loop index of main)
    out,        \* per session: what was written to stdout
    rng         \* per session: state of the module-level random generator

vars == <<names, count, min_len, max_len, debug, seed, pc, parts, i,
          p_counter, m_counter, s_counter, attempts, name, k, out, rng>>

inputs == <<names, count, min_len, max_len, debug, seed>>

(***************************************************************************)
(* Bounds of the model.                                                    *)
(***************************************************************************)
MaxLen == 5         \* longest raw name given to split_name alone
MaxPoolLen == 3     \* longest name of a corpus given to build_weighted_pools alone
MaxNames == 2       \* most names in a corpus
MaxCount == 2       \* largest --count, and most names printed when count = 0

(***************************************************************************)
(* Program constants.                                                      *)
(***************************************************************************)
MaxAttempts == 1000

\* an optional value is a sequence of length 0 (absent) or 1
None == <<>>
Some(x) == <<x>>

Vowels == {"a", "e", "i", "o", "u", "y"}
Whitespace == {" "}

Min(S) == CHOOSE x \in S : \A y \in S : x <= y
Max(S) == CHOOSE x \in S : \A y \in S : x >= y

RECURSIVE StringsUpTo(_, _)
StringsUpTo(alphabet, n) ==
    IF n = 0 THEN {<<>>}
    ELSE LET shorter == StringsUpTo(alphabet, n - 1)
         IN  shorter \cup {Append(w, c) : w \in shorter, c \in alphabet}

RECURSIVE ListsUpTo(_, _)
ListsUpTo(S, n) ==
    IF n = 0 THEN {<<>>}
    ELSE LET shorter == ListsUpTo(S, n - 1)
         IN  shorter \cup {Append(l, x) : l \in shorter, x \in S}

(***************************************************************************)
(* Python primitives.                                                      *)
(***************************************************************************)
\* a slice bound as Python normalises it: negative counts from the end,
\* and both ends are clamped to 0..n
PyIdx(n, j) == IF j < 0 THEN (IF n + j < 0 THEN 0 ELSE n + j)
               ELSE (IF j > n THEN n ELSE j)

\* s[lo:hi]
Slice(s, lo, hi) == SubSeq(s, PyIdx(Len(s), lo) + 1, PyIdx(Len(s), hi))

\* s[lo:]
SliceFrom(s, lo) == SubSeq(s, PyIdx(Len(s), lo) + 1, Len(s))

\* str.strip()
Strip(s) ==
    LET keep == {j \in 1..Len(s) : s[j] \notin Whitespace}
    IN  IF keep = {} THEN <<>> ELSE SubSeq(s, Min(keep), Max(keep))

\* round(num / den) for num >= 0, den > 0: to nearest, ties to even
PyRound(num, den) ==
    LET q == num \div den
        r == num % den
    IN  IF 2 * r > den \/ (2 * r = den /\ q % 2 = 1) THEN q + 1 ELSE q

(***************************************************************************)
(* The splitting heuristic.                                                *)
(***************************************************************************)
vowel_positions(nm) ==
    SelectSeq([j \in 1..Len(nm) |-> j - 1], LAMBDA j : nm[j + 1] \in Vowels)

\* the while loop of the fallback branch
RECURSIVE ShrinkLens(_, _, _)
ShrinkLens(pref_len, suff_len, n) ==
    IF pref_len + suff_len >= n
    THEN IF suff_len > 1 THEN ShrinkLens(pref_len, suff_len - 1, n)
         ELSE IF pref_len > 1 THEN ShrinkLens(pref_len - 1, suff_len, n)
         ELSE <<pref_len, suff_len>>
    ELSE <<pref_len, suff_len>>

\* lines 51-54: two vowels or more
SplitAtVowels_BeforeFirstVowel(nm, v_pos) ==
    LET first_v == v_pos[1]
        last_v == v_pos[Len(v_pos)]
    IN  <<Slice(nm, 0, first_v), Slice(nm, first_v, last_v), SliceFrom(nm, last_v)>>

SplitAtVowels(nm, v_pos) ==
    LET first_v == v_pos[1]
        last_v == v_pos[Len(v_pos)]
    IN  <<Slice(nm, 0, first_v + 1),
          Slice(nm, first_v + 1, last_v),
          SliceFrom(nm, last_v)>>

\* lines 58-60: one vowel in a name of three characters or more
SplitOneVowel(nm) == <<Slice(nm, 0, 1), Slice(nm, 1, -1), SliceFrom(nm, -1)>>

\* lines 63-74: the 30 / 20 percent fallback
SplitByRatio(nm) ==
    LET n == Len(nm)
        pref0 == IF PyRound(3 * n, 10) > 1 THEN PyRound(3 * n, 10) ELSE 1
        suff0 == IF PyRound(2 * n, 10) > 1 THEN PyRound(2 * n, 10) ELSE 1
        lens == ShrinkLens(pref0, suff0, n)
        pref_len == lens[1]
        suff_len == lens[2]
    IN  <<Slice(nm, 0, pref_len),
          IF pref_len + suff_len < n THEN Slice(nm, pref_len, -suff_len) ELSE <<>>,
          SliceFrom(nm, -suff_len)>>

split_name(raw) ==
    LET nm == Strip(raw)
        n == Len(nm)
        v_pos == vowel_positions(nm)
    IN  IF n = 0 THEN << <<>>, <<>>, <<>> >>
        ELSE IF Len(v_pos) >= 2 THEN SplitAtVowels(nm, v_pos)
        ELSE IF Len(v_pos) = 1 /\ n >= 3 THEN SplitOneVowel(nm)
        ELSE SplitByRatio(nm)

(***************************************************************************)
(* collections.Counter: the keys in insertion order, each with its count.  *)
(***************************************************************************)
EmptyCounter == <<>>

Keys(counter) == {counter[j].key : j \in 1..Len(counter)}

\* counter[key] += 1
Inc(counter, key) ==
    IF \E j \in 1..Len(counter) : counter[j].key = key
    THEN [j \in 1..Len(counter) |->
            IF counter[j].key = key
            THEN [key |-> key, n |-> counter[j].n + 1] ELSE counter[j]]
    ELSE Append(counter, [key |-> key, n |-> 1])

IncIfTruthy_Always(counter, seg) == Inc(counter, seg)

\* if seg: counter[seg] += 1
IncIfTruthy(counter, seg) == IF seg # <<>> THEN Inc(counter, seg) ELSE counter

RECURSIVE SumCounts(_)
SumCounts(counter) ==
    IF counter = <<>> THEN 0 ELSE Head(counter).n + SumCounts(Tail(counter))

\* Counter.most_common(): descending count, equal counts in insertion order
RECURSIVE InsertByCount(_, _)
InsertByCount(sorted, e) ==
    IF sorted = <<>> THEN <<e>>
    ELSE IF Head(sorted).n >= e.n
         THEN <<Head(sorted)>> \o InsertByCount(Tail(sorted), e)
         ELSE <<e>> \o sorted

RECURSIVE most_common(_)
most_common(counter) ==
    IF counter = <<>> THEN <<>>
    ELSE InsertByCount(most_common(SubSeq(counter, 1, Len(counter) - 1)),
                       counter[Len(counter)])

(***************************************************************************)
(* The random generator.  Its state is absent while it is seeded from the  *)
(* operating system (every draw is then arbitrary) and a number once       *)
(* random.seed(n) has run (every draw is then a function of the state).    *)
(***************************************************************************)
\* the values random() takes in the model are x / RngMod, x in 0..RngMod-1
RngMod == 8

SeedState(n) == Some(n % RngMod)

NextRng(x) == (5 * x + 3) % RngMod

RECURSIVE Advance(_, _)
Advance(r, steps) ==
    IF r = None \/ steps = 0 THEN r
    ELSE Advance(Some(NextRng(r[1])), steps - 1)

\* random.choices(population, weights, k=1)[0] when random() returns x / RngMod:
\* population[bisect(cum_weights, random() * total, 0, n - 1)]
Bisect(counter, x) ==
    LET cum(j) == SumCounts(SubSeq(counter, 1, j))
        total == SumCounts(counter)
    IN  Cardinality({j \in 1..(Len(counter) - 1) : cum(j) * RngMod <= x * total})

\* the values weighted_choice(counter) can return as the (draw+1)-th draw from r
weighted_choice(counter, r, draw) ==
    IF r = None THEN Keys(counter)
    ELSE {counter[Bisect(counter, Advance(r, draw)[1]) + 1].key}

(***************************************************************************)
(* Standard output: a sequence of records.                                 *)
(***************************************************************************)
NameLine(nm) == [kind |-> "name", text |-> nm]
Banner == [kind |-> "banner"]
Goodbye == [kind |-> "goodbye"]

\* dump_counters(label, counter)
dump_counters(label, counter) ==
    [kind |-> "dump", label |-> label, unique |-> Len(counter),
     total |-> SumCounts(counter), rows |-> most_common(counter)]

Emitted(o) == SelectSeq(o, LAMBDA line : line.kind = "name")

(***************************************************************************)
(* The sessions.  Independent processes share no state, so a session runs  *)
(* once the sessions before it have come to rest.                          *)
(***************************************************************************)
Sessions == {1, 2}

Terminal == {"split_done", "exit_no_names", "exit_insufficient", "done",
             "failed", "cancelled", "interrupted"}

\* nothing but an interrupt can happen to session t any more
AtRest(t) ==
    \/ pc[t] \in Terminal
    \/ pc[t] = "built_pools"
    \/ pc[t] = "gen" /\ count <= 0 /\ k[t] >= MaxCount

Turn(s) == s \in DOMAIN pc /\ \A t \in DOMAIN pc : t < s => AtRest(t)

(***************************************************************************)
(* split_name called on its own.                                           *)
(***************************************************************************)
Split(s) ==
    /\ Turn(s)
    /\ pc[s] = "split"
    /\ parts' = [parts EXCEPT ![s] = split_name(names[1])]
    /\ pc' = [pc EXCEPT ![s] = "split_done"]
    /\ UNCHANGED <<inputs, i, p_counter, m_counter, s_counter, attempts,
                   name, k, out, rng>>

(***************************************************************************)
(* build_weighted_pools: one iteration of `for raw in names`.              *)
(***************************************************************************)
BuildStep(s) ==
    /\ Turn(s)
    /\ pc[s] \in {"build", "build_pools"}
    /\ i[s] <= Len(names)
    /\ LET t == split_name(names[i[s]])
       IN  /\ parts' = [parts EXCEPT ![s] = t]
           /\ p_counter' = [p_counter EXCEPT ![s] = IncIfTruthy(@, t[1])]
           /\ m_counter' = [m_counter EXCEPT ![s] = IncIfTruthy(@, t[2])]
           /\ s_counter' = [s_counter EXCEPT ![s] = IncIfTruthy(@, t[3])]
    /\ i' = [i EXCEPT ![s] = @ + 1]
    /\ UNCHANGED <<inputs, pc, attempts, name, k, out, rng>>

PoolsComplete_AnyPool(p, m, s) == p # <<>> \/ m # <<>> \/ s # <<>>

\* `if not (p_counter and m_counter and s_counter)`
PoolsComplete(p, m, s) == p # <<>> /\ m # <<>> /\ s # <<>>

\* the end of the loop: raise ValueError, or return the three counters.
\* main turns the ValueError into sys.exit("Error: ...").
BuildEnd(s) ==
    /\ Turn(s)
    /\ pc[s] \in {"build", "build_pools"}
    /\ i[s] > Len(names)
    /\ pc' = [pc EXCEPT ![s] =
                IF ~PoolsComplete(p_counter[s], m_counter[s], s_counter[s])
                THEN "exit_insufficient"
                ELSE IF pc[s] = "build" THEN "built" ELSE "built_pools"]
    /\ UNCHANGED <<inputs, parts, i, p_counter, m_counter, s_counter,
                   attempts, name, k, out, rng>>

(***************************************************************************)
(* main.                                                                   *)
(***************************************************************************)
SeedRng_Skipped(r, sd) == r

\* random.seed(args.seed) when a seed is given
SeedRng(r, sd) == IF sd # None THEN SeedState(sd[1]) ELSE r

\* lines 142-150: seed the generator, read the names, give up without names
Start(s) ==
    /\ Turn(s)
    /\ pc[s] = "start"
    /\ rng' = [rng EXCEPT ![s] = SeedRng(@, seed)]
    /\ pc' = [pc EXCEPT ![s] = IF names = <<>> THEN "exit_no_names" ELSE "build"]
    /\ UNCHANGED <<inputs, parts, i, p_counter, m_counter, s_counter,
                   attempts, name, k, out>>

\* lines 154-157
Dump(s) ==
    /\ Turn(s)
    /\ pc[s] = "built"
    /\ out' = [out EXCEPT ![s] =
                 IF debug
                 THEN @ \o <<dump_counters("Prefix", p_counter[s]),
                             dump_counters("Middle", m_counter[s]),
                             dump_counters("Suffix", s_counter[s])>>
                 ELSE @]
    /\ pc' = [pc EXCEPT ![s] = "try"]
    /\ UNCHANGED <<inputs, parts, i, p_counter, m_counter, s_counter,
                   attempts, name, k, rng>>

\* lines 163-168: choose the loop and call generate_name for the first time
EnterTry(s) ==
    /\ Turn(s)
    /\ pc[s] = "try"
    /\ out' = [out EXCEPT ![s] = IF count > 0 THEN @ ELSE Append(@, Banner)]
    /\ pc' = [pc EXCEPT ![s] = "gen"]
    /\ attempts' = [attempts EXCEPT ![s] = 0]
    /\ name' = [name EXCEPT ![s] = <<>>]
    /\ UNCHANGED <<inputs, parts, i, p_counter, m_counter, s_counter, k, rng>>

InBounds_MaxOnly(nm, lo, hi) == Len(nm) <= hi

\* `if min_len <= len(name) <= max_len`
InBounds(nm, lo, hi) == lo <= Len(nm) /\ Len(nm) <= hi

AttemptsLeft_OneMore(a) == a <= MaxAttempts

\* the attempts generate_name may make
AttemptsLeft(a) == a < MaxAttempts

\* generate_name: one iteration of `for _ in range(1000)`
Attempt(s) ==
    /\ Turn(s)
    /\ pc[s] = "gen"
    /\ AttemptsLeft(attempts[s])
    /\ count > 0 \/ k[s] < MaxCount
    /\ \E a \in weighted_choice(p_counter[s], rng[s], 0),
          b \in weighted_choice(m_counter[s], rng[s], 1),
          c \in weighted_choice(s_counter[s], rng[s], 2) :
          /\ name' = [name EXCEPT ![s] = a \o b \o c]
          /\ IF InBounds(a \o b \o c, min_len, max_len)
             THEN /\ pc' = [pc EXCEPT ![s] = "print"]
                  /\ attempts' = [attempts EXCEPT ![s] = 0]
             ELSE /\ pc' = [pc EXCEPT ![s] = "gen"]
                  /\ attempts' = [attempts EXCEPT ![s] = @ + 1]
    /\ rng' = [rng EXCEPT ![s] = Advance(@, 3)]
    /\ UNCHANGED <<inputs, parts, i, p_counter, m_counter, s_counter, k, out>>

\* generate_name: the loop ran out, raise RuntimeError; main does not catch it
Fail(s) ==
    /\ Turn(s)
    /\ pc[s] = "gen"
    /\ ~AttemptsLeft(attempts[s])
    /\ pc' = [pc EXCEPT ![s] = "failed"]
    /\ UNCHANGED <<inputs, parts, i, p_counter, m_counter, s_counter,
                   attempts, name, k, out, rng>>

LoopOver_OneMore(cnt, printed) == cnt > 0 /\ printed > cnt

\* whether the loop of main is over once `printed` names are out
LoopOver(cnt, printed) == cnt > 0 /\ printed >= cnt

\* print(name), then the next turn of the loop of main
Emit(s) ==
    /\ Turn(s)
    /\ pc[s] = "print"
    /\ out' = [out EXCEPT ![s] = Append(@, NameLine(name[s]))]
    /\ k' = [k EXCEPT ![s] = @ + 1]
    /\ IF LoopOver(count, k[s] + 1)
       THEN pc' = [pc EXCEPT ![s] = "done"]
       ELSE pc' = [pc EXCEPT ![s] = "gen"]
    /\ attempts' = [attempts EXCEPT ![s] = 0]
    /\ name' = [name EXCEPT ![s] = <<>>]
    /\ UNCHANGED <<inputs, parts, i, p_counter, m_counter, s_counter, rng>>

\* Ctrl-C: caught inside the try block of lines 162-171, fatal before it
Interrupt(s) ==
    /\ Turn(s)
    /\ pc[s] \in {"start", "build", "built", "try", "gen", "print"}
    /\ IF pc[s] \in {"try", "gen", "print"}
       THEN /\ pc' = [pc EXCEPT ![s] = "cancelled"]
            /\ out' = [out EXCEPT ![s] = Append(@, Goodbye)]
       ELSE /\ pc' = [pc EXCEPT ![s] = "interrupted"]
            /\ out' = out
    /\ attempts' = [attempts EXCEPT ![s] = 0]
    /\ name' = [name EXCEPT ![s] = <<>>]
    /\ UNCHANGED <<inputs, parts, i, p_counter, m_counter, s_counter, k, rng>>

(***************************************************************************)
(* Inputs and specifications.                                              *)
(***************************************************************************)
RawNames == StringsUpTo({"a", "e", "b", "c", " "}, MaxLen)

PoolNames == StringsUpTo({"a", "b"}, MaxPoolLen) \ {<<>>}

Lexicon == {<<"a">>, <<"a", "b", "a">>, <<"b", "a", "b", "a">>}

LenArgs == 3..4

Seeds == 0..1

Fresh(S, first) ==
    /\ pc = [s \in S |-> first]
    /\ parts = [s \in S |-> << <<>>, <<>>, <<>> >>]
    /\ i = [s \in S |-> 1]
    /\ p_counter = [s \in S |-> EmptyCounter]
    /\ m_counter = [s \in S |-> EmptyCounter]
    /\ s_counter = [s \in S |-> EmptyCounter]
    /\ attempts = [s \in S |-> 0]
    /\ name = [s \in S |-> <<>>]
    /\ k = [s \in S |-> 0]
    /\ out = [s \in S |-> <<>>]
    /\ rng = [s \in S |-> None]

NoOptions ==
    /\ count = 0
    /\ min_len = 2
    /\ max_len = 20
    /\ debug = FALSE
    /\ seed = None

\* split_name(raw) for every raw name
InitSplit ==
    /\ names \in {<<raw>> : raw \in RawNames}
    /\ NoOptions
    /\ Fresh({1}, "split")

NextSplit == \E s \in Sessions : Split(s)

SpecSplit == InitSplit /\ [][NextSplit]_vars

\* build_weighted_pools(names) for every corpus
InitPools ==
    /\ names \in ListsUpTo(PoolNames, MaxNames)
    /\ NoOptions
    /\ Fresh({1}, "build_pools")

NextPools == \E s \in Sessions : BuildStep(s) \/ BuildEnd(s)

SpecPools == InitPools /\ [][NextPools]_vars

\* main, the generator seeded by the operating system
Init ==
    /\ names \in ListsUpTo(Lexicon, MaxNames)
    /\ count \in 0..MaxCount
    /\ min_len \in LenArgs
    /\ max_len \in LenArgs
    /\ debug \in BOOLEAN
    /\ seed = None
    /\ Fresh({1}, "start")

Next ==
    \E s \in Sessions :
        \/ Start(s)
        \/ BuildStep(s)
        \/ BuildEnd(s)
        \/ Dump(s)
        \/ EnterTry(s)
        \/ Attempt(s)
        \/ Fail(s)
        \/ Emit(s)
        \/ Interrupt(s)

Spec == Init /\ [][Next]_vars

\* two sessions of main with the same seed, corpus and options
InitSeeded ==
    /\ names \in ListsUpTo(Lexicon, MaxNames)
    /\ count \in 0..MaxCount
    /\ min_len \in LenArgs
    /\ max_len \in LenArgs
    /\ debug = FALSE
    /\ seed \in {Some(n) : n \in Seeds}
    /\ Fresh({1, 2}, "start")

NextSeeded ==
    \E s \in Sessions :
        \/ Start(s)
        \/ BuildStep(s)
        \/ BuildEnd(s)
        \/ Dump(s)
        \/ EnterTry(s)
        \/ Attempt(s)
        \/ Fail(s)
        \/ Emit(s)

SpecSeeded == InitSeeded /\ [][NextSeeded]_vars

(***************************************************************************)
(* Properties.                                                             *)
(***************************************************************************)
Concat3(t) == t[1] \o t[2] \o t[3]

\* the syllables of a name: each a run of consonants closed by at most one vowel
RECURSIVE SyllablesOf(_)
SyllablesOf(nm) ==
    LET vs == {j \in 1..Len(nm) : nm[j] \in Vowels}
    IN  IF nm = <<>> THEN <<>>
        ELSE IF vs = {} THEN <<nm>>
        ELSE <<SubSeq(nm, 1, Min(vs))>> \o SyllablesOf(SubSeq(nm, Min(vs) + 1, Len(nm)))

RECURSIVE Flatten(_)
Flatten(ss) == IF ss = <<>> THEN <<>> ELSE Head(ss) \o Flatten(Tail(ss))

SyllableSplit(nm) ==
    LET syl == SyllablesOf(nm)
        n == Len(syl)
    IN  IF n = 0 THEN << <<>>, <<>>, <<>> >>
        ELSE IF n = 1 THEN <<syl[1], <<>>, <<>>>>
        ELSE <<syl[1], Flatten(SubSeq(syl, 2, n - 1)), syl[n]>>

SplitDone == pc[1] = "split_done"

\* C1 as stated: split_name returns the syllable-based decomposition of the
\* trimmed name (first syllable, the syllables between, last syllable).
C1_SyllableSplit ==
    SplitDone => parts[1] = SyllableSplit(Strip(names[1]))

\* C1 as amended: split_name returns the vowel-boundary decomposition of the
\* trimmed name.  With two vowels or more the prefix ends with the first vowel,
\* the suffix starts with the last vowel and the middle is what lies between;
\* with one vowel in three characters or more the prefix is the first character
\* and the suffix the last; otherwise prefix and suffix are the leading and
\* trailing characters in the rounded 30 and 20 percent of the length, at least
\* one each, so that a name without vowels of three characters or more has
\* three non-empty segments.
C1_VowelBoundarySplit ==
    SplitDone =>
        LET nm == Strip(names[1])
            n == Len(nm)
            V == {j \in 1..n : nm[j] \in Vowels}
            p == parts[1][1]
            m == parts[1][2]
            s == parts[1][3]
        IN  /\ n = 0 => parts[1] = << <<>>, <<>>, <<>> >>
            /\ Cardinality(V) >= 2 =>
                  /\ p \o m \o s = nm
                  /\ Len(p) = Min(V)
                  /\ Len(p) + Len(m) + 1 = Max(V)
            /\ Cardinality(V) = 1 /\ n >= 3 =>
                  /\ p \o m \o s = nm
                  /\ Len(p) = 1
                  /\ Len(s) = 1
            /\ n >= 1 /\ (V = {} \/ (Cardinality(V) = 1 /\ n < 3)) =>
                  /\ Len(p) >= 1 /\ p = SubSeq(nm, 1, Len(p))
                  /\ Len(s) >= 1 /\ s = SubSeq(nm, n - Len(s) + 1, n)
                  /\ n <= 2 => Len(p) = 1 /\ Len(s) = 1 /\ m = <<>>
                  /\ n >= 3 =>
                        /\ p \o m \o s = nm
                        /\ m # <<>>
                        /\ Len(p) = 1 \/ (3 * n - 5 <= 10 * Len(p) /\ 10 * Len(p) <= 3 * n + 5)
                        /\ Len(s) = 1 \/ (2 * n - 5 <= 10 * Len(s) /\ 10 * Len(s) <= 2 * n + 5)

C1_Witness ==
    /\ SplitDone
    /\ names[1] = <<" ", "b", "a", "c", "e">>
    /\ parts[1] = << <<"b", "a">>, <<"c">>, <<"e">> >>

\* C2 as stated: for every non-empty trimmed name the three segments put
\* together are the name, no character lost, duplicated or reordered.
C2_SegmentsRebuildName ==
    (SplitDone /\ Strip(names[1]) # <<>>) => Concat3(parts[1]) = Strip(names[1])

SingleSyllable(nm) == Len(SyllablesOf(nm)) <= 1

PoolsReturned == pc[1] = "built_pools"
PoolsRefused == pc[1] = "exit_insufficient"

\* C3 as stated: a corpus in which every name is a single syllable never gets
\* a PoolSet from build_weighted_pools.
C3_SingleSyllableCorpusFails ==
    (\A j \in 1..Len(names) : SingleSyllable(names[j])) => ~PoolsReturned

\* C3 as amended: a corpus in which every name is a single syllable of at most
\* two characters never gets a PoolSet: its middle pool stays empty and
\* build_weighted_pools ends with the insufficient-data error.
C3_ShortSingleSyllableCorpusFails ==
    (\A j \in 1..Len(names) : SingleSyllable(names[j]) /\ Len(names[j]) <= 2) =>
        /\ ~PoolsReturned
        /\ m_counter[1] = <<>>
        /\ i[1] > Len(names) => ENABLED BuildEnd(1) \/ PoolsRefused

C3_Witness ==
    /\ names = << <<"b", "a">>, <<"b">> >>
    /\ PoolsRefused

Pool(c) == IF c = 1 THEN p_counter[1] ELSE IF c = 2 THEN m_counter[1] ELSE s_counter[1]

NamesWith(c, seg) == {x \in 1..Len(names) : split_name(names[x])[c] = seg}

\* C4: build_weighted_pools returns only with three non-empty pools, whose keys
\* are the non-empty segments of their category, each counted once per name
\* that has it; it raises the insufficient-data error when a pool is empty.
C4_PoolsCountSegments ==
    /\ PoolsReturned =>
          \A c \in 1..3 :
              /\ Pool(c) # <<>>
              /\ Cardinality(Keys(Pool(c))) = Len(Pool(c))
              /\ <<>> \notin Keys(Pool(c))
              /\ \A j \in 1..Len(Pool(c)) :
                    /\ Pool(c)[j].n >= 1
                    /\ Pool(c)[j].n = Cardinality(NamesWith(c, Pool(c)[j].key))
              /\ \A x \in 1..Len(names) :
                    split_name(names[x])[c] # <<>> =>
                        split_name(names[x])[c] \in Keys(Pool(c))
    /\ PoolsRefused =>
          \E c \in 1..3 : \A x \in 1..Len(names) : split_name(names[x])[c] = <<>>
    /\ (\E c \in 1..3 : \A x \in 1..Len(names) : split_name(names[x])[c] = <<>>)
          => ~PoolsReturned

C4_Witness ==
    /\ PoolsReturned
    /\ Len(names) = 2
    /\ p_counter[1] = <<[key |-> <<"a">>, n |-> 2]>>
    /\ Len(s_counter[1]) = 2

Candidates(s) ==
    {a \o b \o c : a \in Keys(p_counter[s]), b \in Keys(m_counter[s]),
                   c \in Keys(s_counter[s])}

Fits(nm) == min_len <= Len(nm) /\ Len(nm) <= max_len

\* C5: the name generate_name returns is a prefix key, a middle key and a
\* suffix key put together, none of them empty, with a length within
\* [min_len, max_len]; every candidate it passed over was out of these bounds,
\* so it is the first candidate that fits.
C5_FirstFittingCandidate ==
    /\ pc[1] = "print" =>
          /\ \E a \in Keys(p_counter[1]), b \in Keys(m_counter[1]),
                c \in Keys(s_counter[1]) :
                name[1] = a \o b \o c /\ a # <<>> /\ b # <<>> /\ c # <<>>
          /\ Fits(name[1])
    /\ (pc[1] = "gen" /\ attempts[1] > 0) =>
          name[1] \in Candidates(1) /\ ~Fits(name[1])
    /\ \A j \in 1..Len(Emitted(out[1])) :
          Emitted(out[1])[j].text \in Candidates(1) /\ Fits(Emitted(out[1])[j].text)

C5_Witness ==
    /\ pc[1] = "print"
    /\ k[1] = 1
    /\ min_len = 4
    /\ name[1] = <<"b", "a", "b", "a">>
    /\ <<"a", "b", "a">> \in Candidates(1)

Unsatisfiable(s) ==
    /\ pc[s] \in {"gen", "print", "failed", "done"}
    /\ \A nm \in Candidates(s) : ~Fits(nm)

\* C6: generate_name never makes more than 1000 attempts; when no combination
\* of keys fits the bounds it returns no name, and it fails exactly when the
\* 1000 attempts are used up.
C6_BoundedAttempts ==
    /\ attempts[1] <= MaxAttempts
    /\ pc[1] = "failed" => attempts[1] = MaxAttempts
    /\ (pc[1] = "gen" /\ attempts[1] = MaxAttempts) =>
          ~ENABLED Attempt(1) /\ ENABLED Fail(1)
    /\ Unsatisfiable(1) =>
          /\ pc[1] \in {"gen", "failed"}
          /\ Emitted(out[1]) = <<>>
          /\ attempts[1] < MaxAttempts => ENABLED Attempt(1)

C6_Witness ==
    /\ pc[1] = "failed"
    /\ attempts[1] = MaxAttempts
    /\ min_len > max_len
    /\ Emitted(out[1]) = <<>>

NumEmitted == Len(Emitted(out[1]))

\* C7 as stated: in finite mode a run that ends with the length-bounds failure
\* has emitted no name.
C7_AllOrNothing ==
    (count > 0 /\ pc[1] = "failed") => NumEmitted = 0

\* C7 as amended: in finite mode with count = N a run that ends normally has
\* emitted exactly N names, and a run that ends with the length-bounds failure
\* has emitted fewer than N, possibly some: the names printed before the failing
\* draw stay emitted.
C7_FiniteRunOutcome ==
    count > 0 =>
        /\ NumEmitted = k[1]
        /\ NumEmitted <= count
        /\ pc[1] = "done" => NumEmitted = count
        /\ pc[1] = "failed" => NumEmitted < count /\ attempts[1] = MaxAttempts
        /\ pc[1] \in {"gen", "print"} => NumEmitted < count

C7_Witness ==
    /\ count = 2
    /\ pc[1] = "failed"
    /\ NumEmitted = 1

\* C8 as stated: with count = 0 the generation loop ends only through external
\* cancellation, after which the shutdown message follows whole names only.
C8_OnlyCancellationEndsStream ==
    (count = 0 /\ pc[1] \in {"done", "failed", "cancelled"}) =>
        /\ pc[1] = "cancelled"
        /\ out[1][Len(out[1])] = Goodbye

IsPrefix(u, v) == Len(u) <= Len(v) /\ u = SubSeq(v, 1, Len(u))

\* C9: two sessions with the same seed, corpus, count, min_len and max_len
\* emit the same sequence of names and end the same way.
C9_SameSeedSameNames ==
    /\ AtRest(1) => IsPrefix(out[2], out[1])
    /\ (AtRest(1) /\ AtRest(2)) => (pc[1] = pc[2] /\ out[1] = out[2])

C9_Witness ==
    /\ pc[1] = "done"
    /\ pc[2] = "done"
    /\ Len(out[2]) = 2
    /\ out[2][1] # out[2][2]

\* C10 as stated: in a debug run the pools are dumped and no name is generated
\* or emitted afterwards.
C10_DebugDumpsAndExits ==
    debug => (name[1] = <<>> /\ Emitted(out[1]) = <<>> /\ pc[1] # "done")

====
